---- MODULE Spec2Model ----
(***************************************************************************)
(* State-machine model of the two components of tiptap-starter-kit:        *)
(*   - the CodeBlock node extension (src/src/nodes/code-block.ts): its     *)
(*     markdown parser/serializer and its node view (language <select>,    *)
(*     copy button, "copied" tooltip, update hook);                        *)
(*   - FloatMenuView (src/unnamed/part_000): construction, update,         *)
(*     show/hide and destroy of the floating popover.                      *)
(* The components share no state, so each has its own specification over   *)
(* the module's variables: SpecCodeBlock, SpecMarkdown, SpecFloatMenu.     *)
(***************************************************************************)
EXTENDS Integers, Sequences, FiniteSets, TLC

VARIABLES
    \* ---- code-block node view (addNodeView) ----
    docNode,        \* the document node currently at the view's position
    node,           \* the `node` captured by the node-view closure (line 113)
    language,       \* language.value of the <select>
    editable,       \* editor.isEditable
    mounted,        \* the node view exists (not destroyed by a rejected update)
    promises,       \* number of clipboard.writeText promises still pending
    instance,       \* the tippy "copied" tooltip is shown
    timers,         \* remaining ms of each pending setTimeout(hide, 1000)
    clicks,         \* copy clicks so far (bounded by MaxClicks)
    cbOp,           \* history: the handler that ran last
    picked,         \* history: the option the user picked in the last change event
    dispatched,     \* history: transactions dispatched by the last handler
    written,        \* history: the text handed to clipboard.writeText last
    resolved,       \* history: some clipboard write has resolved
    \* ---- markdown parser / serializer (addStorage) ----
    mdIn, pmNode, mdOut, mdStage,
    \* ---- FloatMenuView ----
    options,        \* this.options: which callbacks the caller supplied
    fmPhase,        \* "new", "ready", "failed" (constructor threw), "destroyed"
    editorState,    \* editor.view.state: [doc, selection]
    composing,      \* view.composing
    nodeDOM,        \* view.nodeDOM(from) yields an element
    popover,        \* this.popover: [exists, shown, anchored, props]
    prevCall,       \* history: the editor state at the previous update call
    oldGiven,       \* history: the last update call was handed an oldState
    calls,          \* history: the calls the last operation made, in order
    initCalls,      \* history: invocations of options.onInit
    initSaw,        \* history: what existed when options.onInit ran
    fmOp            \* history: the operation that ran last

cbVars == <<docNode, node, language, editable, mounted, promises, instance,
            timers, clicks, cbOp, picked, dispatched, written, resolved>>
mdVars == <<mdIn, pmNode, mdOut, mdStage>>
fmVars == <<options, fmPhase, editorState, composing, nodeDOM, popover,
            prevCall, oldGiven, calls, initCalls, initSaw, fmOp>>
vars == <<cbVars, mdVars, fmVars>>

\* JavaScript's undefined and null, as values no language or text can equal.
Undefined == "<undefined>"
Null == "<null>"

-----------------------------------------------------------------------------
(* Code-block extension: shared definitions *)

\* this.name / this.type of the extension
TypeName == "codeBlock"

\* this.options.lowlight.listLanguages(): the <option>s of the select
ListLanguages == {"bash", "plaintext"}

\* languages a document node can carry (any string; one is not an option)
DocLanguages == ListLanguages \cup {"mermaid"}

\* text contents of a code block: text* with adjacent text merged, so at most
\* one text child, and never an empty text node
DocContents == {<<>>, <<"x=1">>}

\* addAttributes: language defaults to "plaintext"
DefaultLanguage == "plaintext"

CodeBlockNodes ==
    {[type |-> TypeName, attrs |-> [language |-> l], content |-> c] :
        l \in DocLanguages, c \in DocContents}

\* a node of another type, as undo/redo or a collaborative edit may put it
\* where the code block was
OtherNode == [type |-> "paragraph", attrs |-> [language |-> Undefined], content |-> <<>>]

\* node.content.firstChild?.text
FirstChildText(n) == IF Len(n.content) = 0 THEN Undefined ELSE n.content[1]

\* x || ""
OrEmpty(x) == IF x = Undefined \/ x = Null \/ x = "" THEN "" ELSE x

-----------------------------------------------------------------------------
(* Code-block node view (addNodeView, lines 112-187) *)

\* bound: copy clicks in one behaviour
MaxClicks == 2

\* setTimeout(() => instance.hide(), 1000)
HideDelay == 1000

\* typeof getPos === "function": the host hands a node view a function
GetPosIsFunction == TRUE

\* `language.value = v` on the <select> built in lines 126-132: the option
\* whose value is v becomes selected; when no option has that value none is
\* selected and language.value reads "".
SelectValue(v) == IF v \in ListLanguages THEN v ELSE ""

\* faulty variant: the spread without the language override
MarkupAttrsStale(attrs, v) == attrs

\* { ...node.attrs, language: language.value }
MarkupAttrs(attrs, v) == [attrs EXCEPT !.language = v]

\* tr.setNodeMarkup(getPos(), undefined, attrs): the node at the view's
\* position keeps its type and content and gets the given attributes
SetNodeMarkup(target, attrs) ==
    [type |-> target.type, attrs |-> attrs, content |-> target.content]

\* update hook: `updatedNode.type !== this.type` returns false
UpdateAccepts(updatedNode) == updatedNode.type = TypeName

\* the text the copy listener hands to clipboard.writeText
CopyText(n) == OrEmpty(FirstChildText(n))

\* smallest remaining time of the pending timers
MinTimer == CHOOSE m \in {timers[i] : i \in DOMAIN timers} :
                \A i \in DOMAIN timers : m <= timers[i]

\* how far the clock is moved in one step: to the next due timer, or by half
\* the hide delay when no timer is due before that
TickChoices ==
    IF timers = <<>> THEN {}
    ELSE {MinTimer} \cup {d \in {HideDelay \div 2} : d < MinTimer}

RemoveAt(s, i) == [j \in 1..(Len(s) - 1) |-> IF j < i THEN s[j] ELSE s[j + 1]]

InitCodeBlock ==
    /\ docNode \in CodeBlockNodes
    /\ node = docNode
    /\ language = SelectValue(docNode.attrs.language)
    /\ editable \in BOOLEAN
    /\ mounted = TRUE
    /\ promises = 0
    /\ instance = FALSE
    /\ timers = <<>>
    /\ clicks = 0
    /\ cbOp = "init"
    /\ picked = Undefined
    /\ dispatched = 0
    /\ written = Undefined
    /\ resolved = FALSE

\* "change" event of the select: the browser has set language.value to the
\* picked option v, then the listener of lines 134-145 runs.  A dispatched
\* transaction is applied by the editor, which then calls the view's update
\* hook with the new node.
LanguageChange(v) ==
    /\ mounted
    /\ v # language
    /\ cbOp' = "change"
    /\ picked' = v
    /\ IF ~editable
       THEN /\ language' = SelectValue(node.attrs.language)
            /\ dispatched' = 0
            /\ UNCHANGED docNode
       ELSE IF GetPosIsFunction
       THEN LET newNode == SetNodeMarkup(docNode, MarkupAttrs(node.attrs, v)) IN
            /\ docNode' = newNode
            /\ dispatched' = 1
            /\ language' = IF UpdateAccepts(newNode)
                           THEN SelectValue(newNode.attrs.language)
                           ELSE v
       ELSE /\ language' = v
            /\ dispatched' = 0
            /\ UNCHANGED docNode
    /\ UNCHANGED <<node, editable, mounted, promises, instance, timers,
                   clicks, written, resolved>>

\* The document changes under the view (typing, undo/redo, a collaborative
\* edit) and the editor calls the update hook of lines 178-184.  A rejected
\* update makes the editor destroy the view.
NodeViewUpdate(updatedNode) ==
    /\ mounted
    /\ updatedNode # docNode
    /\ cbOp' = "update"
    /\ docNode' = updatedNode
    /\ IF UpdateAccepts(updatedNode)
       THEN /\ language' = SelectValue(updatedNode.attrs.language)
            /\ UNCHANGED mounted
       ELSE /\ mounted' = FALSE
            /\ UNCHANGED language
    /\ dispatched' = 0
    /\ UNCHANGED <<node, editable, promises, instance, timers, clicks,
                   picked, written, resolved>>

\* the editor builds a fresh node view for a code block (lines 113-133, 153)
CreateNodeView(n) ==
    /\ ~mounted
    /\ cbOp' = "create"
    /\ docNode' = n
    /\ node' = n
    /\ language' = SelectValue(n.attrs.language)
    /\ mounted' = TRUE
    /\ promises' = 0
    /\ instance' = FALSE
    /\ timers' = <<>>
    /\ dispatched' = 0
    /\ UNCHANGED <<editable, clicks, picked, written, resolved>>

\* editor.setEditable(b)
SetEditable(b) ==
    /\ b # editable
    /\ editable' = b
    /\ cbOp' = "setEditable"
    /\ dispatched' = 0
    /\ UNCHANGED <<docNode, node, language, mounted, promises, instance,
                   timers, clicks, picked, written, resolved>>

\* "click" on the copy button (lines 162-168, up to the promise)
CopyClick ==
    /\ mounted
    /\ clicks < MaxClicks
    /\ clicks' = clicks + 1
    /\ cbOp' = "click"
    /\ written' = CopyText(node)
    /\ promises' = promises + 1
    /\ dispatched' = 0
    /\ UNCHANGED <<docNode, node, language, editable, mounted, instance,
                   timers, picked, resolved>>

\* the writeText promise resolves: the .then callback of lines 164-167
WriteResolved ==
    /\ promises > 0
    /\ promises' = promises - 1
    /\ cbOp' = "resolved"
    /\ instance' = TRUE
    /\ timers' = Append(timers, HideDelay)
    /\ resolved' = TRUE
    /\ dispatched' = 0
    /\ UNCHANGED <<docNode, node, language, editable, mounted, clicks,
                   picked, written>>

\* the writeText promise rejects: no handler is attached
WriteRejected ==
    /\ promises > 0
    /\ promises' = promises - 1
    /\ cbOp' = "rejected"
    /\ dispatched' = 0
    /\ UNCHANGED <<docNode, node, language, editable, mounted, instance,
                   timers, clicks, picked, written, resolved>>

\* a due timer runs `instance.hide()`
TimerFired(i) ==
    /\ i \in DOMAIN timers
    /\ timers[i] = 0
    /\ timers' = RemoveAt(timers, i)
    /\ instance' = FALSE
    /\ cbOp' = "timeout"
    /\ dispatched' = 0
    /\ UNCHANGED <<docNode, node, language, editable, mounted, promises,
                   clicks, picked, written, resolved>>

\* d ms pass; a due timer runs before more time passes
TimePasses(d) ==
    /\ timers # <<>>
    /\ d > 0
    /\ d <= MinTimer
    /\ timers' = [i \in DOMAIN timers |-> timers[i] - d]
    /\ cbOp' = "tick"
    /\ dispatched' = 0
    /\ UNCHANGED <<docNode, node, language, editable, mounted, promises,
                   instance, clicks, picked, written, resolved>>

-----------------------------------------------------------------------------
(* Markdown parser / serializer (addStorage, lines 68-100) *)

\* language tags and texts of external code nodes (mdast: lang is a string
\* or null, value a string)
MdLangs == {"js", "plaintext", Null}
MdValues == {"", "x=1", "x=1;y", " "}

MdCodeNodes == {[type |-> "code", lang |-> l, value |-> v] : l \in MdLangs, v \in MdValues}
MdOtherNode == [type |-> "paragraph", lang |-> Undefined, value |-> Undefined]

\* editor nodes of this type, as edits after parsing may leave them
EditorNodes ==
    {[type |-> TypeName, attrs |-> [language |-> l], content |-> c] :
        l \in MdLangs, c \in DocContents}

\* state.openNode(type, attrs): a node of the type with the attributes, an
\* attribute that is not given taking its default (addAttributes)
OpenNode(type, attrs) ==
    [type |-> type,
     attrs |-> [language |-> IF attrs.language = Undefined
                             THEN DefaultLanguage ELSE attrs.language],
     content |-> <<>>]

\* state.addText(value): the text becomes the open node's text child; a
\* document holds no empty text node
AddText(open, value) ==
    IF value = "" THEN open ELSE [open EXCEPT !.content = Append(@, value)]

\* parser.match
ParserMatch(md) == md.type = "code"

\* parser.apply
ParserApply(md) ==
    LET lang == md.lang
        value == md.value
    IN AddText(OpenNode(TypeName, [language |-> lang]), value)

\* serializer.match
SerializerMatch(n) == n.type = TypeName

\* faulty variant: the text of the first child without the `|| ""` fallback
SerializerApplyNoFallback(n) ==
    [type |-> "code", value |-> FirstChildText(n), lang |-> n.attrs.language]

\* serializer.apply: the node handed to state.addNode
SerializerApply(n) ==
    [type |-> "code", value |-> OrEmpty(FirstChildText(n)), lang |-> n.attrs.language]

InitMarkdown ==
    /\ mdIn \in MdCodeNodes \cup {MdOtherNode}
    /\ pmNode = Null
    /\ mdOut = Null
    /\ mdStage = "md"

\* the markdown extension hands an external node to the parser
MdParse ==
    /\ mdStage = "md"
    /\ ParserMatch(mdIn)
    /\ pmNode' = ParserApply(mdIn)
    /\ mdStage' = "parsed"
    /\ UNCHANGED <<mdIn, mdOut>>

\* the user edits the parsed node
MdEdit(n) ==
    /\ mdStage \in {"parsed", "edited"}
    /\ n # pmNode
    /\ pmNode' = n
    /\ mdStage' = "edited"
    /\ UNCHANGED <<mdIn, mdOut>>

\* the markdown extension hands the node to the serializer; "roundtrip" when
\* the node is the parser's, unedited
MdSerialize ==
    /\ mdStage \in {"parsed", "edited"}
    /\ SerializerMatch(pmNode)
    /\ mdOut' = SerializerApply(pmNode)
    /\ mdStage' = IF mdStage = "parsed" THEN "roundtrip" ELSE "serialized"
    /\ UNCHANGED <<mdIn, pmNode>>

-----------------------------------------------------------------------------------------------------------------------------------------------------
(* FloatMenuView (src/unnamed/part_000, lines 35-240) *)

\* bound: document positions are 0..MaxPos
MaxPos == 2

Positions == 0..MaxPos
Ranges == {[from |-> f, to |-> t] : f \in Positions, t \in Positions}
OrderedRanges == {r \in Ranges : r.from <= r.to}
NonEmptyRanges == {r \in Ranges : r.from < r.to}

\* selections: a text selection (one range), a node selection (the range of
\* one node), a multi-range selection (two disjoint ranges)
Selections ==
    {[kind |-> "text", ranges |-> {r}] : r \in OrderedRanges}
    \cup {[kind |-> "node", ranges |-> {r}] : r \in {x \in Ranges : x.to = x.from + 1}}
    \cup {[kind |-> "multi", ranges |-> {pr[1], pr[2]}] :
            pr \in {x \in NonEmptyRanges \X NonEmptyRanges : x[1].to <= x[2].from}}

Docs == {"doc0", "doc1"}
EditorStates == {[doc |-> d, selection |-> sel] : d \in Docs, sel \in Selections}

\* the configurations of FloatMenuViewOptions (lines 23-33): show is the
\* visibility predicate ("none": not supplied; "never": returns false;
\* "nonEmpty": returns whether the range is non-empty); onInit is the init
\* callback ("none": not supplied; "callsShow": calls the show function it is
\* handed at once; "keepsShow": keeps it, and may call it later)
OptionSets ==
    [show : {"none", "never", "nonEmpty"},
     rect : BOOLEAN,
     onInit : {"none", "callsShow", "keepsShow"},
     onUpdate : BOOLEAN,
     onDestroy : BOOLEAN]

SetMin(S) == CHOOSE x \in S : \A y \in S : x <= y
SetMax(S) == CHOOSE x \in S : \A y \in S : x >= y

\* faulty variant: Math.max where the code takes Math.min
CreatePropsMaxFrom(state) ==
    [range |-> [from |-> SetMax({r.from : r \in state.selection.ranges}),
                to |-> SetMax({r.to : r \in state.selection.ranges})]]

\* _createProps (lines 191-202): the range over all selection ranges; editor,
\* view, show and hide are references to the view's own
CreateProps(state) ==
    [range |-> [from |-> SetMin({r.from : r \in state.selection.ranges}),
                to |-> SetMax({r.to : r \in state.selection.ranges})]]

\* the value of this.options.show?.(props): "undefined" without a predicate,
\* else what the caller's predicate returns
ShowOption(props) ==
    CASE options.show = "none" -> "undefined"
      [] options.show = "never" -> "false"
      [] OTHER -> IF props.range.from # props.range.to THEN "true" ELSE "false"

\* faulty variant: a missing predicate counts as "show"
ShouldShowDefaultTrue(props) == ShowOption(props) # "false"

\* the negation of the test `!this.options.show?.(props)` (line 67)
ShouldShow(props) == ShowOption(props) = "true"

\* an absent editor state (oldState not passed; no previous call)
NoState == [doc |-> "none", selection |-> [kind |-> "none", ranges |-> {}]]

\* faulty variant: the skip test without view.composing
SkipRenderNoComposing(state, oldState) ==
    /\ oldState # NoState
    /\ oldState.doc = state.doc
    /\ oldState.selection = state.selection

\* the skip test of update (line 60)
SkipRender(state, oldState) ==
    \/ composing
    \/ /\ oldState # NoState
       /\ oldState.doc = state.doc
       /\ oldState.selection = state.selection

\* _createRect()(props) (lines 174-189), evaluated in editor state `state`:
\* the caller's rect function, else the selected node's bounding rect, else
\* posToDOMRect(view, from, to)
CreateRect(props, state, dom) ==
    IF options.rect
    THEN [kind |-> "custom", from |-> props.range.from, to |-> props.range.to]
    ELSE IF state.selection.kind = "node" /\ dom
    THEN [kind |-> "node", from |-> props.range.from, to |-> props.range.from]
    ELSE [kind |-> "text", from |-> props.range.from, to |-> props.range.to]

\* the popover's getReferenceClientRect, as the popover engine reads it now
NoRect == [kind |-> "null", from |-> 0, to |-> 0]
ReferenceClientRect ==
    IF ~popover.exists \/ ~popover.anchored THEN NoRect
    ELSE CreateRect(popover.props, editorState, nodeDOM)

\* this.popover before _createPopover has run; a created popover starts
\* hidden with getReferenceClientRect null (not anchored)
NoProps == [range |-> [from |-> 0, to |-> 0]]
NoPopover == [exists |-> FALSE, shown |-> FALSE, anchored |-> FALSE, props |-> NoProps]

\* faulty variant: the popover is created before the element
ConstructorPopoverFirst == <<"createPopover", "createElement">>

\* the constructor's two steps (lines 44-45)
Constructor == <<"createElement", "createPopover">>

\* one step of the constructor on the view under construction
\* [element, popover, initCalls, initSaw, threw]; a step after a throw does
\* not run.  _createElement (lines 204-225) calls options.onInit; a callback
\* that calls show() runs `this.popover.show()` (line 49), a TypeError while
\* this.popover is undefined.  _createPopover (lines 227-239) builds the
\* popover hidden, with getReferenceClientRect null.
ConstructorStep(v, step) ==
    IF v.threw THEN v
    ELSE IF step = "createElement"
    THEN IF options.onInit = "none"
         THEN [v EXCEPT !.element = TRUE]
         ELSE LET seen == [element |-> TRUE, popover |-> v.popover.exists]
                  w == [v EXCEPT !.element = TRUE, !.initCalls = @ + 1, !.initSaw = seen]
              IN IF options.onInit = "callsShow"
                 THEN IF ~v.popover.exists
                      THEN [w EXCEPT !.threw = TRUE, !.element = FALSE]
                      ELSE [w EXCEPT !.popover = [@ EXCEPT !.shown = TRUE]]
                 ELSE w
    ELSE [v EXCEPT !.popover = [NoPopover EXCEPT !.exists = TRUE]]

NoView ==
    [element |-> FALSE, popover |-> NoPopover, initCalls |-> 0,
     initSaw |-> [element |-> FALSE, popover |-> FALSE], threw |-> FALSE]

InitFloatMenu ==
    /\ options \in OptionSets
    /\ fmPhase = "new"
    /\ editorState \in EditorStates
    /\ composing = FALSE
    /\ nodeDOM = TRUE
    /\ popover = NoPopover
    /\ prevCall = NoState
    /\ oldGiven = FALSE
    /\ calls = <<>>
    /\ initCalls = 0
    /\ initSaw = NoView.initSaw
    /\ fmOp = "none"

\* new FloatMenuView(options) (lines 41-46)
Construct ==
    /\ fmPhase = "new"
    /\ LET v == ConstructorStep(ConstructorStep(NoView, Constructor[1]), Constructor[2]) IN
       /\ fmPhase' = IF v.threw THEN "failed" ELSE "ready"
       /\ popover' = IF v.threw THEN NoPopover ELSE v.popover
       /\ initCalls' = v.initCalls
       /\ initSaw' = v.initSaw
       /\ calls' = IF v.initCalls > 0 THEN <<"onInit">> ELSE <<>>
    /\ fmOp' = "construct"
    /\ UNCHANGED <<options, editorState, composing, nodeDOM, prevCall, oldGiven>>

\* update(view, oldState) (lines 56-82) in the current editor state
Update(state, oldState) ==
    LET props == CreateProps(state)
        asked == IF options.show = "none" THEN <<>> ELSE <<"show?">>
    IN
    /\ fmOp' = "update"
    /\ oldGiven' = (oldState # NoState)
    /\ prevCall' = state
    /\ IF SkipRender(state, oldState)
       THEN /\ calls' = <<>>
            /\ UNCHANGED popover
       ELSE IF ~ShouldShow(props)
       THEN /\ calls' = asked \o <<"hide">>
            /\ popover' = [popover EXCEPT !.shown = FALSE]
       ELSE /\ calls' = asked
                        \o (IF options.onUpdate THEN <<"onUpdate">> ELSE <<>>)
                        \o <<"setProps", "show">>
            /\ popover' = [exists |-> TRUE, shown |-> TRUE, anchored |-> TRUE,
                           props |-> props]
    /\ UNCHANGED <<options, fmPhase, composing, initCalls, initSaw>>

\* the editor applies a transaction (it may change neither document nor
\* selection) and calls the plugin view's update with the state before it;
\* dom says whether the selected node has a DOM node
Dispatch(newState, dom) ==
    /\ fmPhase = "ready"
    /\ editorState' = newState
    /\ nodeDOM' = dom
    /\ Update(newState, editorState)

\* update(view) called without an oldState
UpdateCall ==
    /\ fmPhase = "ready"
    /\ UNCHANGED <<editorState, nodeDOM>>
    /\ Update(editorState, NoState)

\* compositionstart / compositionend
SetComposing(b) ==
    /\ fmPhase = "ready"
    /\ b # composing
    /\ composing' = b
    /\ fmOp' = "composition"
    /\ calls' = <<>>
    /\ UNCHANGED <<options, fmPhase, editorState, nodeDOM, popover, prevCall,
                   oldGiven, initCalls, initSaw>>

\* show() (lines 48-50)
Show ==
    /\ fmPhase = "ready"
    /\ popover' = [popover EXCEPT !.shown = TRUE]
    /\ fmOp' = "show"
    /\ calls' = <<"show">>
    /\ UNCHANGED <<options, fmPhase, editorState, composing, nodeDOM, prevCall,
                   oldGiven, initCalls, initSaw>>

\* hide() (lines 52-54)
Hide ==
    /\ fmPhase = "ready"
    /\ popover' = [popover EXCEPT !.shown = FALSE]
    /\ fmOp' = "hide"
    /\ calls' = <<"hide">>
    /\ UNCHANGED <<options, fmPhase, editorState, composing, nodeDOM, prevCall,
                   oldGiven, initCalls, initSaw>>

\* the show function the init callback kept (line 199) is called later
InitShowLater ==
    /\ fmPhase = "ready"
    /\ options.onInit = "keepsShow"
    /\ popover' = [popover EXCEPT !.shown = TRUE]
    /\ fmOp' = "initShow"
    /\ calls' = <<"show">>
    /\ UNCHANGED <<options, fmPhase, editorState, composing, nodeDOM, prevCall,
                   oldGiven, initCalls, initSaw>>

\* destroy() (lines 84-90)
Destroy ==
    /\ fmPhase = "ready"
    /\ fmPhase' = "destroyed"
    /\ calls' = (IF options.onDestroy THEN <<"onDestroy">> ELSE <<>>) \o <<"destroy">>
    /\ popover' = [popover EXCEPT !.shown = FALSE]
    /\ fmOp' = "destroy"
    /\ UNCHANGED <<options, editorState, composing, nodeDOM, prevCall,
                   oldGiven, initCalls, initSaw>>

-----
(* Specifications *)

IdleMarkdown ==
    mdIn = MdOtherNode /\ pmNode = Null /\ mdOut = Null /\ mdStage = "md"

IdleFloatMenu ==
    /\ options = [show |-> "none", rect |-> FALSE, onInit |-> "none",
                  onUpdate |-> FALSE, onDestroy |-> FALSE]
    /\ fmPhase = "destroyed" /\ editorState = NoState /\ composing = FALSE
    /\ nodeDOM = TRUE /\ popover = NoPopover /\ prevCall = NoState
    /\ oldGiven = FALSE /\ calls = <<>> /\ initCalls = 0 /\ initSaw = NoView.initSaw
    /\ fmOp = "idle"

InitCB == InitCodeBlock /\ IdleMarkdown /\ IdleFloatMenu

NextCB ==
    \/ \E v \in ListLanguages : LanguageChange(v) /\ UNCHANGED <<mdVars, fmVars>>
    \/ \E n \in CodeBlockNodes \cup {OtherNode} : NodeViewUpdate(n) /\ UNCHANGED <<mdVars, fmVars>>
    \/ \E n \in CodeBlockNodes : CreateNodeView(n) /\ UNCHANGED <<mdVars, fmVars>>
    \/ \E b \in BOOLEAN : SetEditable(b) /\ UNCHANGED <<mdVars, fmVars>>
    \/ CopyClick /\ UNCHANGED <<mdVars, fmVars>>
    \/ WriteResolved /\ UNCHANGED <<mdVars, fmVars>>
    \/ WriteRejected /\ UNCHANGED <<mdVars, fmVars>>
    \/ \E i \in DOMAIN timers : TimerFired(i) /\ UNCHANGED <<mdVars, fmVars>>
    \/ \E d \in TickChoices : TimePasses(d) /\ UNCHANGED <<mdVars, fmVars>>

SpecCodeBlock == InitCB /\ [][NextCB]_vars

IdleCodeBlock ==
    /\ docNode = OtherNode /\ node = OtherNode /\ language = ""
    /\ editable = TRUE /\ mounted = FALSE /\ promises = 0 /\ instance = FALSE
    /\ timers = <<>> /\ clicks = MaxClicks /\ cbOp = "idle" /\ picked = Undefined
    /\ dispatched = 0 /\ written = Undefined /\ resolved = FALSE

InitMD == InitMarkdown /\ IdleCodeBlock /\ IdleFloatMenu

NextMD ==
    \/ MdParse /\ UNCHANGED <<cbVars, fmVars>>
    \/ \E n \in EditorNodes : MdEdit(n) /\ UNCHANGED <<cbVars, fmVars>>
    \/ MdSerialize /\ UNCHANGED <<cbVars, fmVars>>

SpecMarkdown == InitMD /\ [][NextMD]_vars

InitFM == InitFloatMenu /\ IdleCodeBlock /\ IdleMarkdown

NextFM ==
    \/ Construct /\ UNCHANGED <<cbVars, mdVars>>
    \/ \E st \in EditorStates :
          \E dom \in (IF st.selection.kind = "node" THEN BOOLEAN ELSE {TRUE}) :
              Dispatch(st, dom) /\ UNCHANGED <<cbVars, mdVars>>
    \/ UpdateCall /\ UNCHANGED <<cbVars, mdVars>>
    \/ \E b \in BOOLEAN : SetComposing(b) /\ UNCHANGED <<cbVars, mdVars>>
    \/ Show /\ UNCHANGED <<cbVars, mdVars>>
    \/ Hide /\ UNCHANGED <<cbVars, mdVars>>
    \/ InitShowLater /\ UNCHANGED <<cbVars, mdVars>>
    \/ Destroy /\ UNCHANGED <<cbVars, mdVars>>

SpecFloatMenu == InitFM /\ [][NextFM]_vars

-----------------------------------------------------------------------------
(* Claims about the code-block node view, checked under SpecCodeBlock *)

\* C1: while the node view is mounted, the select's value equals the
\* language attribute of the document node the view is bound to (stated for
\* languages that are options of the select, the case the claim is about).
C1_SelectMirrorsLanguage ==
    (mounted /\ docNode.attrs.language \in ListLanguages)
        => language = docNode.attrs.language

\* C2: a change event in a non-editable editor dispatches nothing, leaves the
\* document node as it is, and puts the select back to the value it showed
\* before the change, which is the node's current language.
C2_ReadOnlyGuard ==
    [][(cbOp' = "change" /\ ~editable) =>
          /\ dispatched' = 0
          /\ docNode' = docNode
          /\ language' = language
          /\ (docNode.attrs.language \in ListLanguages
                => language' = docNode.attrs.language)]_vars

\* C3: a change event in an editable editor dispatches exactly one
\* transaction, after which the node's language is the picked value and its
\* type and text content are what they were.
C3_EditableMutation ==
    [][(cbOp' = "change" /\ editable) =>
          /\ dispatched' = 1
          /\ docNode'.attrs.language = picked'
          /\ docNode'.content = docNode.content
          /\ docNode'.type = docNode.type]_vars

\* C3 witness: an editable change has set a node with text, whose language
\* had already been changed in place since the view was built, to the picked
\* option.
C3_Witness ==
    /\ cbOp = "change" /\ editable /\ dispatched = 1
    /\ docNode.attrs.language = picked
    /\ picked # node.attrs.language
    /\ docNode.content # node.content
    /\ docNode.content # <<>>

\* C4: a copy click hands clipboard.writeText the document node's current
\* text ("" when it has no text child).
C4_CopyWritesCurrentText ==
    cbOp = "click" =>
        written = (IF docNode.content = <<>> THEN "" ELSE docNode.content[1])

\* C5: the confirmation is visible only once a clipboard write has resolved,
\* and every confirmation shown less than HideDelay ms ago is still visible.
C5_ConfirmationLastsHideDelay ==
    /\ instance => resolved
    /\ \A i \in DOMAIN timers : timers[i] > 0 => instance

-----------------------------------------------------------------------------
(* Claims about the markdown hooks, checked under SpecMarkdown *)

\* C6: serializing the node the parser built from {type: "code", lang, value}
\* yields a code node with the same lang and value; serializing any node
\* with no text child yields value "".
C6_ParseSerializeLossless ==
    /\ mdStage = "roundtrip" =>
          mdOut.type = "code" /\ mdOut.lang = mdIn.lang /\ mdOut.value = mdIn.value
    /\ (mdStage \in {"roundtrip", "serialized"} /\ pmNode.content = <<>>) =>
          mdOut.value = ""

\* C6 witness: the round trip of a node with a language tag and text is done.
C6_Witness ==
    /\ mdStage = "roundtrip"
    /\ mdIn.lang = "js"
    /\ mdIn.value = "x=1;y"
    /\ mdOut = mdIn

-----------------------------------------------------------------------------
(* Claims about FloatMenuView, checked under SpecFloatMenu *)

\* the selection holds a non-empty range
NonEmptySelection(sel) == \E r \in sel.ranges : r.from < r.to

\* rg is [min from, max to] over the ranges of the selection
SpansSelection(rg, sel) ==
    /\ \E r \in sel.ranges : r.from = rg.from
    /\ \A r \in sel.ranges : rg.from <= r.from
    /\ \E r \in sel.ranges : r.to = rg.to
    /\ \A r \in sel.ranges : r.to <= rg.to

\* the configured predicate returns true in the state
PredicateTrue(state) ==
    options.show = "nonEmpty" /\ NonEmptySelection(state.selection)

\* the calls of an update that goes through to show()
ShowingCalls ==
    (IF options.show = "none" THEN <<>> ELSE <<"show?">>)
    \o (IF options.onUpdate THEN <<"onUpdate">> ELSE <<>>)
    \o <<"setProps", "show">>

\* C7: an update call whose predicate is missing or returns false calls
\* neither the update callback nor setProps nor show(), never turns a hidden
\* popover visible, leaves the anchor alone, and, unless it is skipped,
\* hides the popover.
C7_NoShowWithoutPredicate ==
    [][(fmOp' = "update" /\ ~PredicateTrue(editorState')) =>
          /\ \A i \in DOMAIN calls' : calls'[i] \notin {"onUpdate", "setProps", "show"}
          /\ popover'.shown => popover.shown
          /\ popover'.anchored = popover.anchored
          /\ popover'.props = popover.props
          /\ (~composing' /\ ~(oldGiven' /\ editorState' = editorState))
                => (~popover'.shown /\ calls'[Len(calls')] = "hide")]_vars

\* C7 witness: with a non-empty selection, an update whose predicate
\* returned false has hidden the popover.
C7_Witness ==
    /\ fmOp = "update"
    /\ options.show = "never"
    /\ NonEmptySelection(editorState.selection)
    /\ calls = <<"show?", "hide">>
    /\ ~composing
    /\ ~popover.shown

\* C8 as stated: every update call with a predicate that returns true and a
\* non-empty selection calls the update callback (if supplied), then sets the
\* anchor to the caller's rect, else the selected node's rect for a node
\* selection, else the text rect over [min from, max to], then shows.
C8_UpdateShowsAnchored ==
    [][(/\ fmOp' = "update"
        /\ PredicateTrue(editorState')
        /\ NonEmptySelection(editorState'.selection)) =>
          /\ calls' = ShowingCalls
          /\ popover'.shown
          /\ \E rg \in Ranges :
                /\ SpansSelection(rg, editorState'.selection)
                /\ ReferenceClientRect' =
                     IF options.rect
                     THEN [kind |-> "custom", from |-> rg.from, to |-> rg.to]
                     ELSE IF editorState'.selection.kind = "node"
                     THEN [kind |-> "node", from |-> rg.from, to |-> rg.from]
                     ELSE [kind |-> "text", from |-> rg.from, to |-> rg.to]]_vars

\* C8 amended: the same of every update call that is not skipped (not
\* mid-composition, not handed an oldState equal to the current state), the
\* node's rect being taken when the selected node has a DOM node and the
\* text rect otherwise.
C8_UpdateShowsAnchoredUnlessSkipped ==
    [][(/\ fmOp' = "update"
        /\ ~composing'
        /\ ~(oldGiven' /\ editorState' = editorState)
        /\ PredicateTrue(editorState')
        /\ NonEmptySelection(editorState'.selection)) =>
          /\ calls' = ShowingCalls
          /\ popover'.shown
          /\ \E rg \in Ranges :
                /\ SpansSelection(rg, editorState'.selection)
                /\ ReferenceClientRect' =
                     IF options.rect
                     THEN [kind |-> "custom", from |-> rg.from, to |-> rg.to]
                     ELSE IF editorState'.selection.kind = "node" /\ nodeDOM'
                     THEN [kind |-> "node", from |-> rg.from, to |-> rg.from]
                     ELSE [kind |-> "text", from |-> rg.from, to |-> rg.to]]_vars

\* C8 witness: an update over a two-range selection has called the update
\* callback, anchored the popover to the text rect spanning both ranges and
\* shown it.
C8_Witness ==
    /\ fmOp = "update"
    /\ editorState.selection.kind = "multi"
    /\ calls = <<"show?", "onUpdate", "setProps", "show">>
    /\ popover.shown
    /\ ReferenceClientRect = [kind |-> "text", from |-> 0, to |-> MaxPos]

\* C9 as stated: an update call made mid-composition, or in a state whose
\* document and selection are those of the previous update call, makes no
\* call and leaves the popover as it is.
C9_SkipWhenSameAsPreviousCall ==
    [][(/\ fmOp' = "update"
        /\ \/ composing'
           \/ /\ prevCall # NoState
              /\ prevCall.doc = editorState'.doc
              /\ prevCall.selection = editorState'.selection) =>
          (calls' = <<>> /\ popover' = popover)]_vars

\* C9 amended: an update call made mid-composition, or handed an oldState
\* whose document and selection are the current ones, makes no call and
\* leaves the popover as it is.
C9_SkipWhenSameAsOldState ==
    [][(/\ fmOp' = "update"
        /\ \/ composing'
           \/ /\ oldGiven'
              /\ editorState.doc = editorState'.doc
              /\ editorState.selection = editorState'.selection) =>
          (calls' = <<>> /\ popover' = popover)]_vars

\* C9 witness: outside composition, an update handed an unchanged oldState
\* was skipped: the predicate returns false, yet the popover is still shown.
C9_Witness ==
    /\ fmOp = "update"
    /\ ~composing
    /\ oldGiven
    /\ calls = <<>>
    /\ options.show = "never"
    /\ popover.shown

\* C10: the init callback runs once, in the constructor, when the element
\* exists and the popover does not; update and destroy never call it; a show
\* function called inside it finds no popover (the constructor fails), and
\* one kept by it works once the view is constructed.
C10_InitRunsBeforePopover ==
    /\ initCalls <= 1
    /\ fmPhase \in {"ready", "destroyed"} =>
          initCalls = (IF options.onInit = "none" THEN 0 ELSE 1)
    /\ initCalls = 1 => (initSaw.element /\ ~initSaw.popover)
    /\ fmOp \in {"update", "destroy"} => \A i \in DOMAIN calls : calls[i] # "onInit"
    /\ options.onInit = "callsShow" => (fmPhase \in {"new", "failed"} /\ ~popover.exists)
    /\ fmPhase = "failed" => options.onInit = "callsShow"
    /\ fmOp = "initShow" => (fmPhase = "ready" /\ popover.exists /\ popover.shown)

\* C10 witness: the show function kept by the init callback has shown the
\* popover of the constructed view.
C10_Witness ==
    /\ fmOp = "initShow"
    /\ initCalls = 1
    /\ ~initSaw.popover
    /\ popover.shown

====
